---- MODULE Spec2Model ----
(***************************************************************************)
(* Model of wikiscraper.py: the recursive section filter                   *)
(* (extracting_section), the per-article extraction (get_article), the     *)
(* corpus builder (generate_categories) and the command line entry point   *)
(* (parse_arguments, main).                                                *)
(*                                                                         *)
(* Texts and article titles are sequences of one-character strings, so     *)
(* that len(), slicing and the substring test `in` are computed.  Section  *)
(* titles are only ever compared for equality and are plain strings.       *)
(***************************************************************************)
EXTENDS Integers, Sequences, FiniteSets

VARIABLES
    pc,                  \* position of the single control thread
    output_format,       \* --output_format as typed on the command line
    categories,          \* the taxonomy: sequence of [name, subcategories]
    max_articles,        \* --max_articles
    min_article_length,  \* --min_article_length
    max_article_length,  \* --max_article_length
    unnecessary_sections,\* the exclusion list handed to the section filter
    articles,            \* the corpus: article title -> article_dict
    idx,                 \* number of the category being processed (enumerate idx + 1)
    article_counter,     \* accepted articles of the current category
    sub,                 \* subcategories of the current category consumed so far
    members,             \* category.categorymembers.values() of the resolved subcategory
    mem,                 \* members of the resolved subcategory consumed so far
    files,               \* output artifacts: file name -> content
    trace,               \* history of collaborator calls, insertions and logging.info records
    page,                \* the article handed to get_article (article-level specifications)
    reduced_article,     \* get_article's local reduced_article after the slice
    article_dict,        \* the value returned by get_article
    extracted_text       \* the value returned by extracting_section

vars == <<pc, output_format, categories, max_articles, min_article_length,
          max_article_length, unnecessary_sections, articles, idx,
          article_counter, sub, members, mem, files, trace, page,
          reduced_article, article_dict, extracted_text>>

\* ------------------------------------------------------------------ bounds
MaxNodes == 4        \* section nodes in one article's section tree
MaxCats == 2         \* categories in the taxonomy
MaxSubcats == 3      \* subcategories listed in the whole taxonomy
MaxQuota == 2        \* --max_articles -1..MaxQuota are tried
MaxOffset == 5       \* slice offsets -MaxOffset..MaxOffset are tried

\* ------------------------------------------------------- python primitives
Min(a, b) == IF a < b THEN a ELSE b
Max(a, b) == IF a > b THEN a ELSE b

\* the index arithmetic of s[lo:hi] on a str of length n: a negative index
\* counts from the end, then the index is clamped to 0..n.
SliceIndex(i, n) == IF i < 0 THEN Max(i + n, 0) ELSE Min(i, n)

\* faulty variant: the character at the end offset is taken too
SliceInclusive(s, lo, hi) ==
    LET a == SliceIndex(lo, Len(s))
        b == SliceIndex(hi, Len(s))
    IN  IF a > b THEN <<>> ELSE SubSeq(s, a + 1, Min(b + 1, Len(s)))

\* reduced_article[min_article_length:max_article_length]
Slice(s, lo, hi) ==
    LET a == SliceIndex(lo, Len(s))
        b == SliceIndex(hi, Len(s))
    IN  IF a >= b THEN <<>> ELSE SubSeq(s, a + 1, b)

\* `sub in s` for two str values.
Contains(part, s) ==
    \E i \in 0..(Len(s) - Len(part)) : SubSeq(s, i + 1, i + Len(part)) = part

\* {} and the truth value of a dict.
EmptyDict == [k \in {} |-> <<>>]
Truthy(d) == DOMAIN d # {}

\* faulty variant: an existing key keeps its value (setdefault)
DictSetDefault(d, key, value) ==
    [k \in DOMAIN d \cup {key} |-> IF k \in DOMAIN d THEN d[k] ELSE value]

\* d[key] = value on a dict d.
DictSet(d, key, value) ==
    [k \in DOMAIN d \cup {key} |-> IF k = key THEN value ELSE d[k]]

\* ---------------------------------------------------------- section filter
\* faulty variant: the subsections of an excluded section are still visited
RECURSIVE extracting_section_shallow(_, _)
extracting_section_shallow(unnecessary, sections) ==
    IF sections = <<>> THEN <<>>
    ELSE LET section == Head(sections)
         IN  (IF section.title \notin unnecessary
              THEN section.text
              ELSE <<>>)
             \o extracting_section_shallow(unnecessary, section.sections)
             \o extracting_section_shallow(unnecessary, Tail(sections))

\* `unnecessary` is the set of the list's elements: the list is only used
\* with `not in`.
RECURSIVE extracting_section(_, _)
extracting_section(unnecessary, sections) ==
    IF sections = <<>> THEN <<>>
    ELSE LET section == Head(sections)
         IN  (IF section.title \notin unnecessary
              THEN section.text
                   \o extracting_section(unnecessary, section.sections)
              ELSE <<>>)
             \o extracting_section(unnecessary, Tail(sections))

\* ------------------------------------------------------------- get_article
ReducedArticle(article, unnecessary, minLen, maxLen) ==
    Slice(article.summary \o extracting_section(unnecessary, article.sections),
          minLen, maxLen)

\* faulty variant: length is taken before the slice
GetArticleRawLength(article, category, unnecessary, minLen, maxLen) ==
    IF article.exists
    THEN LET reduced == ReducedArticle(article, unnecessary, minLen, maxLen)
         IN  IF reduced # <<>>
             THEN [category |-> category, text |-> reduced,
                   length |-> Len(article.summary
                                  \o extracting_section(unnecessary, article.sections))]
             ELSE EmptyDict
    ELSE EmptyDict

\* faulty variant: neither exists() nor the emptiness of the text is tested
GetArticleUnchecked(article, category, unnecessary, minLen, maxLen) ==
    LET reduced == ReducedArticle(article, unnecessary, minLen, maxLen)
    IN  [category |-> category, text |-> reduced, length |-> Len(reduced)]

GetArticle(article, category, unnecessary, minLen, maxLen) ==
    IF article.exists
    THEN LET reduced == ReducedArticle(article, unnecessary, minLen, maxLen)
         IN  IF reduced # <<>>
             THEN [category |-> category, text |-> reduced, length |-> Len(reduced)]
             ELSE EmptyDict
    ELSE EmptyDict

\* --------------------------------------------------- generate_categories
ListeVon == <<"L", "i", "s", "t", "e", " ", "v", "o", "n">>
ListeD == <<"L", "i", "s", "t", "e", " ", "d">>

\* faulty variant: only the first of the two markers is tested
EligibleVonOnly(article) ==
    article.ns = 0 /\ ~Contains(ListeVon, article.title)

\* the condition of the `if` that guards the call of get_article
Eligible(article) ==
    article.ns = 0
    /\ (~Contains(ListeVon, article.title) /\ ~Contains(ListeD, article.title))

\* ------------------------------------------------------------------ inputs
Sec(title, text, sections) ==
    [title |-> title, text |-> text, sections |-> sections]

Art(title, ns, exists, summary, sections) ==
    [title |-> title, ns |-> ns, exists |-> exists, summary |-> summary,
     sections |-> sections]

\* the list main() passes as unnecessary_sections
UnnecessarySections ==
    {"Literatur", "Weblinks", "Einzelnachweis", "Einzelnachweise", "Siehe auch"}

\* the section nodes tried: three titles, each with a text of its own
SectionTitles == {"Inhalt", "Weblinks", "Werk"}

SectionText(title) ==
    CASE title = "Inhalt" -> <<"p">>
      [] title = "Weblinks" -> <<"q", "r">>
      [] OTHER -> <<"s">>

\* every section forest with exactly n nodes: a first tree, its root over a
\* forest of k - 1 nodes, followed by a forest of n - k nodes
RECURSIVE ForestsOf(_)
ForestsOf(n) ==
    IF n = 0 THEN {<<>>}
    ELSE UNION { { <<Sec(t, SectionText(t), c)>> \o rest :
                     t \in SectionTitles,
                     c \in ForestsOf(k - 1), rest \in ForestsOf(n - k) } :
                 k \in 1..n }

Forests == UNION { ForestsOf(n) : n \in 0..MaxNodes }

\* The content source: the member listing of each subcategory identifier, in
\* the order categorymembers.values() yields it (titles unique per listing).
SubcategoryIds == {"Kategorie:Physik", "Kategorie:Chemie", "Kategorie:Leer"}

CategoryMembers(subcategory) ==
    CASE subcategory = "Kategorie:Physik" ->
           << Art(<<"A">>, 0, TRUE, <<"a", "b">>,
                  << Sec("Inhalt", <<"c", "z">>, << Sec("Weblinks", <<"d">>, <<>>) >>),
                     Sec("Literatur", <<"e">>, <<>>) >>),
              Art(ListeVon \o <<" ", "A">>, 0, TRUE, <<"x">>, <<>>),
              Art(<<"B">>, 0, TRUE, <<>>, << Sec("Weblinks", <<"w">>, <<>>) >>),
              Art(<<"C">>, 0, TRUE, <<"f">>, <<>>),
              Art(<<"l", "i", "s", "t", "e", " ", "v", "o", "n", " ", "E">>,
                  0, TRUE, <<"j", "k">>, << Sec("Werk", <<"l">>, <<>>) >>) >>
      [] subcategory = "Kategorie:Chemie" ->
           << Art(<<"K", ":", "X">>, 14, TRUE, <<"y">>, <<>>),
              Art(<<"D">>, 0, FALSE, <<>>, <<>>),
              Art(<<"A">>, 0, TRUE, <<"g", "h", "i">>, <<>>),
              Art(ListeD \o <<"e", "r", " ", "B">>, 0, TRUE, <<"v">>, <<>>) >>
      [] OTHER -> <<>>

CategoryName(k) == <<"Kategorie", k>>

RECURSIVE SeqsUpTo(_, _)
SeqsUpTo(S, n) ==
    IF n = 0 THEN {<<>>}
    ELSE SeqsUpTo(S, n - 1)
         \cup { Append(q, x) : q \in { r \in SeqsUpTo(S, n - 1) : Len(r) = n - 1 },
                               x \in S }

\* the subcategory lists of n categories that hold at most `budget`
\* subcategories together
RECURSIVE SubcategoryLists(_, _)
SubcategoryLists(n, budget) ==
    IF n = 0 THEN {<<>>}
    ELSE UNION { { Append(rest, s) : rest \in SubcategoryLists(n - 1, budget - Len(s)) } :
                 s \in SeqsUpTo(SubcategoryIds, budget) }

Taxonomies ==
    UNION { { [k \in 1..n |-> [name |-> CategoryName(k), subcategories |-> f[k]]] :
                f \in SubcategoryLists(n, MaxSubcats) } :
            n \in 0..MaxCats }

Quotas == (-1)..MaxQuota

\* the command lines tried: the default slice offsets with the default output
\* format, a narrow window with the other format, and a format outside the
\* parser's choices
CommandLines ==
    { [output_format |-> "json", min_article_length |-> 0, max_article_length |-> 10000],
      [output_format |-> "csv", min_article_length |-> 1, max_article_length |-> 3],
      [output_format |-> "xml", min_article_length |-> 0, max_article_length |-> 10000] }

\* ------------------------------------------------------------ the program
\* a logging.info record; Progress is the f"{idx+1} of {len(categories)}
\* categories loaded." record
Info(msg) == [op |-> "info", msg |-> msg]
Progress(k, n) == [op |-> "info", msg |-> "of categories loaded.", k |-> k, n |-> n]

Init ==
    /\ pc = "parse_arguments"
    /\ \E args \in CommandLines :
         /\ output_format = args.output_format
         /\ min_article_length = args.min_article_length
         /\ max_article_length = args.max_article_length
    /\ categories \in Taxonomies
    /\ max_articles \in Quotas
    /\ unnecessary_sections = UnnecessarySections
    /\ articles = EmptyDict
    /\ idx = 0
    /\ article_counter = 0
    /\ sub = 0
    /\ members = <<>>
    /\ mem = 0
    /\ files = EmptyDict
    /\ trace = <<>>
    /\ page = Art(<<>>, 0, FALSE, <<>>, <<>>)
    /\ reduced_article = <<>>
    /\ article_dict = EmptyDict
    /\ extracted_text = <<>>

\* parse_arguments: argparse rejects an --output_format outside `choices`
\* with a usage error and SystemExit(2); main is then never called.
ParseArguments ==
    /\ pc = "parse_arguments"
    /\ pc' = IF output_format \in {"csv", "json"} THEN "main" ELSE "exit_2"
    /\ UNCHANGED <<output_format, categories, max_articles, min_article_length,
                   max_article_length, unnecessary_sections, articles, idx,
                   article_counter, sub, members, mem, files, trace, page,
                   reduced_article, article_dict, extracted_text>>

\* main up to the call of generate_categories, and `articles = {}`
MainLoad ==
    /\ pc = "main"
    /\ trace' = Append(trace, Info("Successfully loaded the categories from the JSON-File."))
    /\ articles' = EmptyDict
    /\ idx' = 0
    /\ pc' = "for_category"
    /\ UNCHANGED <<output_format, categories, max_articles, min_article_length,
                   max_article_length, unnecessary_sections, article_counter,
                   sub, members, mem, files, page, reduced_article,
                   article_dict, extracted_text>>

\* faulty variant: article_counter is not reset
NextCategoryKeepCounter ==
    /\ pc = "for_category"
    /\ idx < Len(categories)
    /\ idx' = idx + 1
    /\ sub' = 0
    /\ pc' = "for_subcategory"
    /\ UNCHANGED <<output_format, categories, max_articles, min_article_length,
                   max_article_length, unnecessary_sections, articles,
                   article_counter, members, mem, files, trace, page,
                   reduced_article, article_dict, extracted_text>>

\* `for idx, (category_name, subcategories) in enumerate(...)`: next category
NextCategory ==
    /\ pc = "for_category"
    /\ idx < Len(categories)
    /\ idx' = idx + 1
    /\ article_counter' = 0
    /\ sub' = 0
    /\ pc' = "for_subcategory"
    /\ UNCHANGED <<output_format, categories, max_articles, min_article_length,
                   max_article_length, unnecessary_sections, articles, members,
                   mem, files, trace, page, reduced_article, article_dict,
                   extracted_text>>

\* faulty variant: without the `break` of the subcategory loop
ResolveSubcategoryNoBreak ==
    /\ pc = "for_subcategory"
    /\ sub < Len(categories[idx].subcategories)
    /\ sub' = sub + 1
    /\ members' = CategoryMembers(categories[idx].subcategories[sub + 1])
    /\ mem' = 0
    /\ trace' = Append(trace, [op |-> "page", idx |-> idx,
                               subcategory |-> categories[idx].subcategories[sub + 1]])
    /\ pc' = "for_article"
    /\ UNCHANGED <<output_format, categories, max_articles, min_article_length,
                   max_article_length, unnecessary_sections, articles, idx,
                   article_counter, files, page, reduced_article, article_dict,
                   extracted_text>>

\* `for subcategory in subcategories`: the quota test, then wikipedia.page
ResolveSubcategory ==
    /\ pc = "for_subcategory"
    /\ sub < Len(categories[idx].subcategories)
    /\ ~(article_counter >= max_articles)
    /\ sub' = sub + 1
    /\ members' = CategoryMembers(categories[idx].subcategories[sub + 1])
    /\ mem' = 0
    /\ trace' = Append(trace, [op |-> "page", idx |-> idx,
                               subcategory |-> categories[idx].subcategories[sub + 1]])
    /\ pc' = "for_article"
    /\ UNCHANGED <<output_format, categories, max_articles, min_article_length,
                   max_article_length, unnecessary_sections, articles, idx,
                   article_counter, files, page, reduced_article, article_dict,
                   extracted_text>>

\* faulty variant: the message reports idx instead of idx + 1
CategoryLoadedZeroBased ==
    /\ pc = "for_subcategory"
    /\ sub >= Len(categories[idx].subcategories) \/ article_counter >= max_articles
    /\ trace' = Append(trace, Progress(idx - 1, Len(categories)))
    /\ pc' = "for_category"
    /\ UNCHANGED <<output_format, categories, max_articles, min_article_length,
                   max_article_length, unnecessary_sections, articles, idx,
                   article_counter, sub, members, mem, files, page,
                   reduced_article, article_dict, extracted_text>>

\* the subcategory loop ends (exhausted or `break`): the progress message
CategoryLoaded ==
    /\ pc = "for_subcategory"
    /\ sub >= Len(categories[idx].subcategories) \/ article_counter >= max_articles
    /\ trace' = Append(trace, Progress(idx, Len(categories)))
    /\ pc' = "for_category"
    /\ UNCHANGED <<output_format, categories, max_articles, min_article_length,
                   max_article_length, unnecessary_sections, articles, idx,
                   article_counter, sub, members, mem, files, page,
                   reduced_article, article_dict, extracted_text>>

\* one iteration of `for article in ...categorymembers.values()`
VisitArticle ==
    /\ pc = "for_article"
    /\ mem < Len(members)
    /\ ~(article_counter >= max_articles)
    /\ mem' = mem + 1
    /\ LET article == members[mem + 1]
           result == GetArticle(article, categories[idx].name, unnecessary_sections,
                                min_article_length, max_article_length)
           call == [op |-> "get_article", idx |-> idx, article |-> article,
                    result |-> result]
       IN  IF Eligible(article)
           THEN /\ article_dict' = result
                /\ IF Truthy(result)
                   THEN /\ articles' = DictSet(articles, article.title, result)
                        /\ article_counter' = article_counter + 1
                        /\ trace' = trace \o <<call, [op |-> "insert", idx |-> idx,
                                                      title |-> article.title,
                                                      record |-> result]>>
                   ELSE /\ trace' = Append(trace, call)
                        /\ UNCHANGED <<articles, article_counter>>
           ELSE UNCHANGED <<article_dict, articles, article_counter, trace>>
    /\ pc' = "for_article"
    /\ UNCHANGED <<output_format, categories, max_articles, min_article_length,
                   max_article_length, unnecessary_sections, idx, sub, members,
                   files, page, reduced_article, extracted_text>>

\* the member loop ends (exhausted or `break`)
MembersDone ==
    /\ pc = "for_article"
    /\ mem >= Len(members) \/ article_counter >= max_articles
    /\ pc' = "for_subcategory"
    /\ UNCHANGED <<output_format, categories, max_articles, min_article_length,
                   max_article_length, unnecessary_sections, articles, idx,
                   article_counter, sub, members, mem, files, trace, page,
                   reduced_article, article_dict, extracted_text>>

\* `return articles`, back in main
GenerateReturn ==
    /\ pc = "for_category"
    /\ idx >= Len(categories)
    /\ trace' = Append(trace, Info("Successfully generated lists of the articles"))
    /\ pc' = "save"
    /\ UNCHANGED <<output_format, categories, max_articles, min_article_length,
                   max_article_length, unnecessary_sections, articles, idx,
                   article_counter, sub, members, mem, files, page,
                   reduced_article, article_dict, extracted_text>>

\* pd.DataFrame([v for k, v in categories.items()]): the records without
\* their titles, as a bag of rows
CsvRows(d) ==
    [r \in { d[t] : t \in DOMAIN d } |-> Cardinality({ t \in DOMAIN d : d[t] = r })]

\* the output branch of main and its two closing messages
MainSave ==
    /\ pc = "save"
    /\ IF output_format = "json"
       THEN /\ files' = DictSet(files, "articles.json", articles)
            /\ trace' = trace \o <<Info("Successfully saved the articles."),
                                   Info("Total runtime")>>
       ELSE IF output_format = "csv"
       THEN /\ files' = DictSet(files, "articles.csv", CsvRows(articles))
            /\ trace' = trace \o <<Info("Successfully saved the articles."),
                                   Info("Total runtime")>>
       ELSE /\ files' = files
            /\ trace' = trace \o <<Info("Output format is unknown. Can't save results."),
                                   Info("Successfully saved the articles."),
                                   Info("Total runtime")>>
    /\ pc' = "done"
    /\ UNCHANGED <<output_format, categories, max_articles, min_article_length,
                   max_article_length, unnecessary_sections, articles, idx,
                   article_counter, sub, members, mem, page, reduced_article,
                   article_dict, extracted_text>>

Next ==
    \/ ParseArguments
    \/ MainLoad
    \/ NextCategory
    \/ ResolveSubcategory
    \/ VisitArticle
    \/ MembersDone
    \/ CategoryLoaded
    \/ GenerateReturn
    \/ MainSave

Spec == Init /\ [][Next]_vars

\* ------------------------------------------- article-level specifications
\* extracting_section applied to every section forest of at most MaxNodes
\* nodes and every exclusion set over the titles used
InitSection ==
    /\ pc = "extracting_section"
    /\ output_format = "json"
    /\ categories = <<>>
    /\ max_articles = 0
    /\ min_article_length = 0
    /\ max_article_length = 0
    /\ unnecessary_sections \in SUBSET SectionTitles
    /\ articles = EmptyDict
    /\ idx = 0
    /\ article_counter = 0
    /\ sub = 0
    /\ members = <<>>
    /\ mem = 0
    /\ files = EmptyDict
    /\ trace = <<>>
    /\ \E f \in Forests : page = Art(<<"T">>, 0, TRUE, <<>>, f)
    /\ reduced_article = <<>>
    /\ article_dict = EmptyDict
    /\ extracted_text = <<>>

ExtractingSection ==
    /\ pc = "extracting_section"
    /\ extracted_text' = extracting_section(unnecessary_sections, page.sections)
    /\ pc' = "extracted"
    /\ UNCHANGED <<output_format, categories, max_articles, min_article_length,
                   max_article_length, unnecessary_sections, articles, idx,
                   article_counter, sub, members, mem, files, trace, page,
                   reduced_article, article_dict>>

SpecSection == InitSection /\ [][ExtractingSection]_vars

\* get_article applied to a page, for every pair of slice offsets
Summaries ==
    { <<>>, <<"0", "1", "2">>,
      <<"0", "1", "2", "3", "4", "5", "6", "7", "8", "9">> }

SampleSections ==
    { <<>>,
      << Sec("Weblinks", <<"w">>, <<>>) >>,
      << Sec("Inhalt", <<"W", "o", "r", "l", "d">>,
             << Sec("Siehe auch", <<"s">>, <<>>) >>),
         Sec("Werk", <<"x">>, <<>>) >> }

ArticlePages ==
    { Art(<<"T">>, 0, e, s, f) :
        e \in BOOLEAN, s \in Summaries, f \in SampleSections }

Offsets == ((-MaxOffset)..MaxOffset) \cup {8, 10000}

InitArticle ==
    /\ pc = "get_article"
    /\ output_format = "json"
    /\ categories = <<>>
    /\ max_articles = 0
    /\ min_article_length \in Offsets
    /\ max_article_length \in Offsets
    /\ unnecessary_sections \in {{}, UnnecessarySections}
    /\ articles = EmptyDict
    /\ idx = 0
    /\ article_counter = 0
    /\ sub = 0
    /\ members = <<>>
    /\ mem = 0
    /\ files = EmptyDict
    /\ trace = <<>>
    /\ page \in ArticlePages
    /\ reduced_article = <<>>
    /\ article_dict = EmptyDict
    /\ extracted_text = <<>>

GetArticleCall ==
    /\ pc = "get_article"
    /\ reduced_article' =
         IF page.exists
         THEN ReducedArticle(page, unnecessary_sections, min_article_length,
                             max_article_length)
         ELSE reduced_article
    /\ article_dict' = GetArticle(page, CategoryName(1), unnecessary_sections,
                                  min_article_length, max_article_length)
    /\ pc' = "returned"
    /\ UNCHANGED <<output_format, categories, max_articles, min_article_length,
                   max_article_length, unnecessary_sections, articles, idx,
                   article_counter, sub, members, mem, files, trace, page,
                   extracted_text>>

SpecArticle == InitArticle /\ [][GetArticleCall]_vars

\* ================================================================= claims

\* ---- helpers of the section-tree claims: nodes addressed by index paths
RECURSIVE NodePaths(_)
NodePaths(sections) ==
    UNION { {<<i>>} \cup { <<i>> \o p : p \in NodePaths(sections[i].sections) } :
            i \in 1..Len(sections) }

RECURSIVE NodeAt(_, _)
NodeAt(sections, path) ==
    IF Len(path) = 1 THEN sections[path[1]]
    ELSE NodeAt(sections[path[1]].sections, Tail(path))

IsPrefix(p, q) == Len(p) <= Len(q) /\ SubSeq(q, 1, Len(p)) = p

\* p comes before q in pre-order: an ancestor before its descendants, and
\* otherwise the order of the siblings at the first place the paths differ
PreOrderBefore(p, q) ==
    \/ p # q /\ IsPrefix(p, q)
    \/ \E i \in 1..Min(Len(p), Len(q)) :
         /\ SubSeq(p, 1, i - 1) = SubSeq(q, 1, i - 1)
         /\ p[i] < q[i]

\* neither the node at `path` nor any of its ancestors is excluded
NotExcluded(sections, excluded, path) ==
    \A n \in 1..Len(path) : NodeAt(sections, SubSeq(path, 1, n)).title \notin excluded

RECURSIVE PreOrderText(_, _)
PreOrderText(sections, paths) ==
    IF paths = {} THEN <<>>
    ELSE LET first == CHOOSE p \in paths :
                        \A q \in paths \ {p} : PreOrderBefore(p, q)
         IN  NodeAt(sections, first).text \o PreOrderText(sections, paths \ {first})

\* C1: extracting_section returns the pre-order concatenation of the text of
\* exactly the nodes that are not excluded and have no excluded ancestor.
C1_PreOrderFilter ==
    pc = "extracted" =>
        extracted_text =
            PreOrderText(page.sections,
                         { p \in NodePaths(page.sections) :
                             NotExcluded(page.sections, unnecessary_sections, p) })

\* a kept node lies below an excluded one at depth 3, and a sibling of the
\* excluded node, after it, is kept
C1_Witness ==
    /\ pc = "extracted"
    /\ \E p \in NodePaths(page.sections), q \in NodePaths(page.sections) :
         /\ Len(p) = 3
         /\ NodeAt(page.sections, p).title \notin unnecessary_sections
         /\ NodeAt(page.sections, SubSeq(p, 1, 1)).title \in unnecessary_sections
         /\ Len(q) = 1 /\ q[1] > p[1]
         /\ NodeAt(page.sections, q).title \notin unnecessary_sections
    /\ extracted_text # <<>>

\* ---- helpers of the slice claims
RawText(article, excluded) ==
    article.summary \o extracting_section(excluded, article.sections)

Clamp(i, n) == Max(0, Min(i, n))

\* the characters of s at the offsets a, a+1, ..., b-1 (0-based)
Window(s, a, b) == [i \in 1..Max(b - a, 0) |-> s[a + i]]

FromEnd(i, n) == IF i < 0 THEN i + n ELSE i

Positions(op) == { i \in 1..Len(trace) : trace[i].op = op }

Insertions(k) == { i \in Positions("insert") : trace[i].idx = k }

Notifications ==
    { i \in Positions("info") : trace[i].msg = "of categories loaded." }

\* the category whose processing has ended
Completed(k) == idx > k \/ (idx = k /\ pc \in {"for_category", "save", "done"})

\* a member the claims call not eligible
NotACandidate(article) ==
    \/ article.ns # 0
    \/ Contains(<<"L", "i", "s", "t", "e", " ", "v", "o", "n">>, article.title)
    \/ Contains(<<"L", "i", "s", "t", "e", " ", "d">>, article.title)

\* the trimmed text of a page is empty
TrimsToNothing(article) ==
    Slice(RawText(article, unnecessary_sections), min_article_length,
          max_article_length) = <<>>

\* the member occurrences of one listing that are eligible and yield a record
Yielding(listing) ==
    { i \in 1..Len(listing) :
        /\ ~NotACandidate(listing[i])
        /\ listing[i].exists
        /\ ~TrimsToNothing(listing[i]) }

RECURSIVE YieldingOver(_)
YieldingOver(subcategories) ==
    IF subcategories = <<>> THEN 0
    ELSE Cardinality(Yielding(CategoryMembers(Head(subcategories))))
         + YieldingOver(Tail(subcategories))

\* C3: every record of the corpus, in every state, has a non-empty text and a
\* length field equal to the number of characters of its text.
C3_RecordLength ==
    \A t \in DOMAIN articles :
        /\ articles[t].text # <<>>
        /\ articles[t].length = Len(articles[t].text)

\* the returned corpus holds a record whose text was cut on both sides
C3_Witness ==
    /\ pc = "done"
    /\ min_article_length = 1
    /\ \E t \in DOMAIN articles :
         /\ articles[t].length = 2
         /\ \E i \in Positions("get_article") :
              /\ trace[i].article.title = t
              /\ Len(RawText(trace[i].article, unnecessary_sections)) > 3

\* C4: for a quota >= 0, the insertions made for a category whose processing
\* has ended number min(quota, A), A the eligible member occurrences of all
\* its subcategories that yield a record.
C4_QuotaPerCategory ==
    max_articles >= 0 =>
        \A k \in 1..Len(categories) :
            Completed(k) =>
                Cardinality(Insertions(k))
                    = Min(max_articles, YieldingOver(categories[k].subcategories))

\* two categories, the first filled to a quota that leaves occurrences over,
\* the second still accepting; a title is accepted twice in one category
C4_Witness ==
    /\ pc = "done"
    /\ Len(categories) = 2
    /\ max_articles >= 1
    /\ Cardinality(Insertions(1)) = max_articles
    /\ YieldingOver(categories[1].subcategories) > max_articles
    /\ Cardinality(Insertions(2)) >= 1
    /\ \E i \in Insertions(2), j \in Insertions(2) :
         i # j /\ trace[i].title = trace[j].title

\* C5: a member with a namespace other than 0, or with "Liste von" or
\* "Liste d" in its title, is not passed to get_article, inserts nothing and
\* does not increment the counter.
C5_SkipsNonArticles ==
    [][ (/\ pc = "for_article"
         /\ mem < Len(members)
         /\ NotACandidate(members[mem + 1]))
        => (/\ articles' = articles
            /\ article_counter' = article_counter
            /\ trace' = trace) ]_vars

\* the loop has just passed over an existing, non-empty "Liste d..." page of
\* namespace 0, and over a page of another namespace before it
C5_Witness ==
    /\ pc = "for_article"
    /\ mem >= 1
    /\ members[mem].ns = 0
    /\ Contains(ListeD, members[mem].title)
    /\ members[mem].exists
    /\ ~TrimsToNothing(members[mem])
    /\ \E i \in 1..(mem - 1) : members[i].ns # 0
    /\ \A i \in Positions("get_article") : trace[i].article # members[mem]

\* C6: the corpus holds, for every title ever inserted, exactly the record of
\* the latest insertion under that title.
C6_LastWriterWins ==
    /\ DOMAIN articles = { trace[i].title : i \in Positions("insert") }
    /\ \A i \in Positions("insert") :
         (\A j \in Positions("insert") : trace[j].title = trace[i].title => j <= i)
            => articles[trace[i].title] = trace[i].record

\* one title was accepted under two categories with different texts, and the
\* returned corpus carries the later category's label
C6_Witness ==
    /\ pc = "done"
    /\ \E i \in Positions("insert"), j \in Positions("insert") :
         /\ i < j
         /\ trace[i].title = trace[j].title
         /\ trace[i].idx < trace[j].idx
         /\ trace[i].record.text # trace[j].record.text
         /\ articles[trace[j].title].category = categories[trace[j].idx].name
         /\ articles[trace[j].title].text = trace[j].record.text

\* C7: a candidate that does not exist, or whose trimmed text is empty, gets
\* the empty record from get_article; the corpus and the counter stay as they
\* are and the loop goes on to the next member.
C7_RejectedCandidate ==
    [][ (/\ pc = "for_article"
         /\ mem < Len(members)
         /\ article_counter < max_articles
         /\ ~NotACandidate(members[mem + 1])
         /\ (~members[mem + 1].exists \/ TrimsToNothing(members[mem + 1])))
        => (/\ article_dict' = EmptyDict
            /\ articles' = articles
            /\ article_counter' = article_counter
            /\ mem' = mem + 1
            /\ pc' = "for_article") ]_vars

\* in one category a missing page and an existing page with nothing left
\* were both rejected, and a later member of the category was accepted
C7_Witness ==
    \E i \in Positions("get_article"), j \in Positions("get_article"),
       n \in Positions("insert") :
        /\ ~trace[i].article.exists
        /\ trace[i].result = EmptyDict
        /\ trace[j].article.exists
        /\ trace[j].result = EmptyDict
        /\ i < n /\ trace[i].idx = trace[n].idx
        /\ Cardinality({ m \in Insertions(trace[n].idx) : m <= n }) = 1

\* C8 as stated: a run with an output format other than "json" and "csv"
\* logs the unknown-format message, completes, and writes no artifact.
C8_UnknownFormat ==
    (output_format \notin {"json", "csv"} /\ pc \in {"exit_2", "done"}) =>
        /\ pc = "done"
        /\ \E i \in Positions("info") :
             trace[i].msg = "Output format is unknown. Can't save results."
        /\ DOMAIN files = {}

\* C9: every subcategory resolution and every get_article call of a category
\* happens while fewer than max_articles insertions have been made for that
\* category, and the calls follow the order of the categories.
C9_NoCallAfterQuota ==
    \A i \in Positions("page") \cup Positions("get_article") :
        /\ Cardinality({ n \in Insertions(trace[i].idx) : n < i }) < max_articles
        /\ \A j \in Positions("page") \cup Positions("get_article") :
             j < i => trace[j].idx <= trace[i].idx

\* the first category reached its quota with a subcategory left unresolved,
\* and the next resolution was made for the second category
C9_Witness ==
    /\ max_articles >= 1
    /\ Len(categories) = 2
    /\ Len(categories[1].subcategories) = 2
    /\ Cardinality(Insertions(1)) = max_articles
    /\ Cardinality({ i \in Positions("page") : trace[i].idx = 1 }) = 1
    /\ \E i \in Positions("page") : trace[i].idx = 2

\* C10: the k-th notification reports k of N; every resolution, call and
\* insertion of category k lies between the (k-1)-th and the k-th
\* notification; a category whose processing has ended has its notification
\* and the run ends with N of them.
C10_ProgressPerCategory ==
    /\ \A i \in Notifications :
         /\ trace[i].k = Cardinality({ j \in Notifications : j <= i })
         /\ trace[i].n = Len(categories)
    /\ \A i \in Positions("page") \cup Positions("get_article") \cup Positions("insert") :
         Cardinality({ j \in Notifications : j < i }) = trace[i].idx - 1
    /\ \A k \in 1..Len(categories) :
         Completed(k) => Cardinality(Notifications) >= k
    /\ Cardinality(Notifications) <= Len(categories)

\* a finished run over two categories, the first ended by its quota with a
\* subcategory left over, the second by running out of subcategories
C10_Witness ==
    /\ pc = "done"
    /\ Len(categories) = 2
    /\ Cardinality(Notifications) = 2
    /\ max_articles >= 1
    /\ Cardinality(Insertions(1)) = max_articles
    /\ Cardinality({ i \in Positions("page") : trace[i].idx = 1 })
         < Len(categories[1].subcategories)
    /\ Cardinality(Insertions(2)) < max_articles
    /\ Cardinality(Insertions(2)) >= 1

====
